---- MODULE Spec2Model ----
(***************************************************************************)
(* A model of the AWS Signature Version 4 signer of fsaravia/aws_signer.    *)
(*                                                                         *)
(* A Go string is a sequence of byte values 0..255.  SHA-256, HMAC and the *)
(* hexadecimal rendering of a digest are modelled as free (collision-free) *)
(* constructors: a digest is the sequence of what was hashed, every value  *)
(* raised by 1000 and put between the marks 256..262, so that no value of  *)
(* a digest is a byte of a string and different inputs give different      *)
(* digests.  A Go map is a function, and a `range` over it visits its keys *)
(* in an order chosen nondeterministically.                                *)
(***************************************************************************)
EXTENDS Integers, Sequences, FiniteSets, TLC

VARIABLES request, payload, signer, op, ret, loc, nsigns

vars == <<request, payload, signer, op, ret, loc, nsigns>>

(***************************************************************************)
(* Bounds of the model.                                                    *)
(***************************************************************************)
\* Sign calls made on one request.
MaxSigns == 2
\* Values held under one header key, and pairs of one query string.
MaxVals == 2

(***************************************************************************)
(* The package constants.                                                  *)
(***************************************************************************)
\* "AWS4-HMAC-SHA256"
algorithm == <<65, 87, 83, 52, 45, 72, 77, 65, 67, 45, 83, 72, 65, 50, 53, 54>>
\* "X-Amz-Date"
dateHeader == <<88, 45, 65, 109, 122, 45, 68, 97, 116, 101>>
\* "host"
hostHeader == <<104, 111, 115, 116>>
\* "aws4_request"
terminationString == <<97, 119, 115, 52, 95, 114, 101, 113, 117, 101, 115, 116>>
\* "Authorization", the literal key of Sign's second Header.Add
authorizationHeader == <<65, 117, 116, 104, 111, 114, 105, 122, 97, 116, 105, 111, 110>>

(***************************************************************************)
(* strings, sort, bytes.Buffer: the library calls, on byte sequences.      *)
(***************************************************************************)
\* strings.ToLower on ASCII: 'A'..'Z' become 'a'..'z', every other byte stays.
ToLower(s) == [i \in DOMAIN s |-> IF s[i] >= 65 /\ s[i] <= 90 THEN s[i] + 32 ELSE s[i]]

\* strings.Join(elems, sep)
RECURSIVE Join(_, _)
Join(elems, sep) ==
  IF elems = <<>> THEN <<>>
  ELSE IF Len(elems) = 1 THEN elems[1]
  ELSE elems[1] \o sep \o Join(Tail(elems), sep)

\* strings.Split(s, sep) for a one-byte sep: the fields between the separators
\* (one field, the empty one, for the empty string).
RECURSIVE SplitFrom(_, _, _)
SplitFrom(s, sep, cur) ==
  IF s = <<>> THEN <<cur>>
  ELSE IF Head(s) = sep THEN <<cur>> \o SplitFrom(Tail(s), sep, <<>>)
  ELSE SplitFrom(Tail(s), sep, Append(cur, Head(s)))

Split(s, sep) == SplitFrom(s, sep, <<>>)

\* Go's < on strings: byte-wise lexicographic order.
RECURSIVE StringLess(_, _)
StringLess(a, b) ==
  IF b = <<>> THEN FALSE
  ELSE IF a = <<>> THEN TRUE
  ELSE IF Head(a) # Head(b) THEN Head(a) < Head(b)
  ELSE StringLess(Tail(a), Tail(b))

\* One insertion of sort.Strings: x goes before the first element greater than it.
RECURSIVE InsertSorted(_, _)
InsertSorted(x, sorted) ==
  IF sorted = <<>> THEN <<x>>
  ELSE IF StringLess(x, Head(sorted)) THEN <<x>> \o sorted
  ELSE <<Head(sorted)>> \o InsertSorted(x, Tail(sorted))

\* sort.Strings(names): ascending, byte-wise.
RECURSIVE SortStrings(_)
SortStrings(names) ==
  IF names = <<>> THEN <<>>
  ELSE InsertSorted(Head(names), SortStrings(Tail(names)))

(***************************************************************************)
(* http.Header: a map from key to the list of its values.                  *)
(***************************************************************************)
\* The orders in which one `range header` may visit the keys of the map.
Orders(header) ==
  LET n == Cardinality(DOMAIN header)
  IN  {o \in [1..n -> DOMAIN header] : \A i, j \in 1..n : o[i] = o[j] => i = j}

\* textproto.CanonicalMIMEHeaderKey: the first letter and every letter after a
\* '-' upper-cased, every other letter lower-cased.
RECURSIVE CanonicalMIMEHeaderKey(_, _)
CanonicalMIMEHeaderKey(s, upper) ==
  IF s = <<>> THEN <<>>
  ELSE LET c == Head(s)
           d == IF upper /\ c >= 97 /\ c <= 122 THEN c - 32
                ELSE IF ~upper /\ c >= 65 /\ c <= 90 THEN c + 32
                ELSE c
       IN  <<d>> \o CanonicalMIMEHeaderKey(Tail(s), c = 45)

\* http.Header.Set in place of Add: the value replaces the values of the key.
HeaderSet(header, key, value) ==
  LET k == CanonicalMIMEHeaderKey(key, TRUE)
  IN  [x \in DOMAIN header \cup {k} |-> IF x = k THEN <<value>> ELSE header[x]]

\* http.Header.Add(key, value): value is appended to the values of the
\* canonical form of key; every other key keeps its values.
HeaderAdd(header, key, value) ==
  LET k == CanonicalMIMEHeaderKey(key, TRUE)
  IN  [x \in DOMAIN header \cup {k} |->
         IF x = k
         THEN (IF k \in DOMAIN header THEN header[k] ELSE <<>>) \o <<value>>
         ELSE header[x]]

(***************************************************************************)
(* The header canonicalizer.                                               *)
(***************************************************************************)
\* signedHeaders(header), its range loop visiting the keys in `order`.
signedHeaders(header, order) ==
  LET headerNames == [i \in DOMAIN order |-> ToLower(order[i])] \o <<hostHeader>>
  IN  Join(SortStrings(headerNames), <<59>>)

\* lowerCaseHeaders after the range loop of canonicalHeaders has visited
\* order[i..]: a later key of the same lower-case name overwrites an earlier one.
RECURSIVE LowerCaseHeaders(_, _, _, _)
LowerCaseHeaders(header, order, i, m) ==
  IF i > Len(order) THEN m
  ELSE LET lowerName == ToLower(order[i])
           value == Join(header[order[i]], <<32>>)
       IN  LowerCaseHeaders(header, order, i + 1,
             [x \in DOMAIN m \cup {lowerName} |-> IF x = lowerName THEN value ELSE m[x]])

\* m[name] of a Go map of strings: the empty string for a missing key.
MapGet(m, name) == IF name \in DOMAIN m THEN m[name] ELSE <<>>

\* The write loop of canonicalHeaders: "name:value\n" for every name.
RECURSIVE HeaderLines(_, _)
HeaderLines(headerNames, m) ==
  IF headerNames = <<>> THEN <<>>
  ELSE Head(headerNames) \o <<58>> \o MapGet(m, Head(headerNames)) \o <<10>>
       \o HeaderLines(Tail(headerNames), m)

\* What signedHeaders(header) may return, over the orders of its range loop.
SignedHeadersResults(header) == {signedHeaders(header, order) : order \in Orders(header)}

\* canonicalHeaders(header, host): `signed` is what its signedHeaders call
\* returned, `order` the order of its own range loop.
canonicalHeaders(header, host, signed, order) ==
  LET filled == LowerCaseHeaders(header, order, 1, <<>>)
      lowerCaseHeaders == [x \in DOMAIN filled \cup {hostHeader} |->
                             IF x = hostHeader THEN host ELSE filled[x]]
      headerNames == Split(signed, 59)
  IN  HeaderLines(headerNames, lowerCaseHeaders) \o <<10>> \o signed

\* What canonicalHeaders(header, host) may return, over the orders of the
\* two range loops.
CanonicalHeadersResults(header, host) ==
  {canonicalHeaders(header, host, signed, order) :
     signed \in SignedHeadersResults(header), order \in Orders(header)}

(***************************************************************************)
(* time.Time.Format for a UTC instant [year, month, day, hour, minute,     *)
(* second], on the layout elements the package's layouts use.              *)
(***************************************************************************)
\* "20060102"
dateFormat == <<50, 48, 48, 54, 48, 49, 48, 50>>
\* "20060102T150405Z"
dateTimeFormat == <<50, 48, 48, 54, 48, 49, 48, 50, 84, 49, 53, 48, 52, 48, 53, 90>>
\* time.RFC3339, "2006-01-02T15:04:05Z07:00"
RFC3339 == <<50, 48, 48, 54, 45, 48, 49, 45, 48, 50, 84, 49, 53, 58, 48, 52, 58, 48, 53, 90, 48, 55, 58, 48, 48>>

\* n in decimal, zero-padded to `width` digits.
RECURSIVE Digits(_, _)
Digits(n, width) ==
  IF width = 0 THEN <<>> ELSE Digits(n \div 10, width - 1) \o <<48 + (n % 10)>>

HasPrefix(s, prefix) ==
  Len(s) >= Len(prefix) /\ SubSeq(s, 1, Len(prefix)) = prefix

Drop(s, n) == SubSeq(s, n + 1, Len(s))

\* Format(layout): "2006", "01", "02", "15", "04", "05" are replaced by the
\* fields of the instant, "Z07:00" by "Z" (the instant is in UTC), and every
\* other byte of the layout is copied.
RECURSIVE Format(_, _)
Format(t, layout) ==
  IF layout = <<>> THEN <<>>
  ELSE IF HasPrefix(layout, <<50, 48, 48, 54>>)
       THEN Digits(t.year, 4) \o Format(t, Drop(layout, 4))
  ELSE IF HasPrefix(layout, <<48, 49>>)
       THEN Digits(t.month, 2) \o Format(t, Drop(layout, 2))
  ELSE IF HasPrefix(layout, <<48, 50>>)
       THEN Digits(t.day, 2) \o Format(t, Drop(layout, 2))
  ELSE IF HasPrefix(layout, <<49, 53>>)
       THEN Digits(t.hour, 2) \o Format(t, Drop(layout, 2))
  ELSE IF HasPrefix(layout, <<48, 52>>)
       THEN Digits(t.minute, 2) \o Format(t, Drop(layout, 2))
  ELSE IF HasPrefix(layout, <<48, 53>>)
       THEN Digits(t.second, 2) \o Format(t, Drop(layout, 2))
  ELSE IF HasPrefix(layout, <<90, 48, 55, 58, 48, 48>>)
       THEN <<90>> \o Format(t, Drop(layout, 6))
  ELSE <<Head(layout)>> \o Format(t, Tail(layout))

(***************************************************************************)
(* crypto/sha256, crypto/hmac, encoding/hex as free constructors.          *)
(***************************************************************************)
\* What was hashed, as it stands inside a digest.
Hashed(data) == [i \in DOMAIN data |-> data[i] + 1000]

\* sha256.Sum256(data): the digest of data.
Sum256(data) == <<256>> \o Hashed(data) \o <<257>>

\* hmac.New(sha256.New, key); Write(message); Sum(nil)
HMAC(key, message) == <<258>> \o Hashed(key) \o <<259>> \o Hashed(message) \o <<260>>

\* hex.EncodeToString(digest) and fmt.Sprintf("%x", digest)
HexEncode(digest) == <<261>> \o Hashed(digest) \o <<262>>

(***************************************************************************)
(* net/url: escaping, URL.EscapedPath, URL.Query, Values.Encode.           *)
(***************************************************************************)
\* "0123456789ABCDEF"
upperhex == <<48, 49, 50, 51, 52, 53, 54, 55, 56, 57, 65, 66, 67, 68, 69, 70>>

\* The bytes url.shouldEscape leaves alone in every mode: letters, digits and
\* '-', '_', '.', '~'.
Unreserved(c) ==
  \/ c >= 97 /\ c <= 122
  \/ c >= 65 /\ c <= 90
  \/ c >= 48 /\ c <= 57
  \/ c \in {45, 95, 46, 126}

\* url.shouldEscape(c, encodePath): of the reserved bytes $&+,/:;=?@ only
\* '?' is escaped in a path.
ShouldEscapePath(c) ==
  ~Unreserved(c) /\ c \notin {36, 38, 43, 44, 47, 58, 59, 61, 64}

\* url.shouldEscape(c, encodeQueryComponent): every reserved byte is escaped.
ShouldEscapeQuery(c) == ~Unreserved(c)

PercentEncode(c) == <<37, upperhex[(c \div 16) + 1], upperhex[(c % 16) + 1]>>

\* url.escape(s, encodePath)
RECURSIVE EscapePath(_)
EscapePath(s) ==
  IF s = <<>> THEN <<>>
  ELSE (IF ShouldEscapePath(Head(s)) THEN PercentEncode(Head(s)) ELSE <<Head(s)>>)
       \o EscapePath(Tail(s))

\* url.QueryEscape(s): a space becomes '+'.
RECURSIVE QueryEscape(_)
QueryEscape(s) ==
  IF s = <<>> THEN <<>>
  ELSE (IF Head(s) = 32 THEN <<43>>
        ELSE IF ShouldEscapeQuery(Head(s)) THEN PercentEncode(Head(s))
        ELSE <<Head(s)>>)
       \o QueryEscape(Tail(s))

IsHex(c) == (c >= 48 /\ c <= 57) \/ (c >= 65 /\ c <= 70) \/ (c >= 97 /\ c <= 102)

UnHex(c) == IF c <= 57 THEN c - 48 ELSE IF c <= 70 THEN c - 55 ELSE c - 87

\* Whether url.QueryUnescape(s) succeeds: every '%' is followed by two hex digits.
RECURSIVE ValidEscapes(_)
ValidEscapes(s) ==
  IF s = <<>> THEN TRUE
  ELSE IF Head(s) = 37
       THEN Len(s) >= 3 /\ IsHex(s[2]) /\ IsHex(s[3]) /\ ValidEscapes(Drop(s, 3))
  ELSE ValidEscapes(Tail(s))

\* url.QueryUnescape(s) of a string with valid escapes: '+' is a space,
\* "%XX" the byte XX.
RECURSIVE QueryUnescape(_)
QueryUnescape(s) ==
  IF s = <<>> THEN <<>>
  ELSE IF Head(s) = 37
       THEN <<16 * UnHex(s[2]) + UnHex(s[3])>> \o QueryUnescape(Drop(s, 3))
  ELSE IF Head(s) = 43 THEN <<32>> \o QueryUnescape(Tail(s))
  ELSE <<Head(s)>> \o QueryUnescape(Tail(s))

\* strings.Cut(s, "="): the part before the first '=' and the part after it
\* (all of s and the empty string when there is none).
RECURSIVE CutFrom(_, _)
CutFrom(s, before) ==
  IF s = <<>> THEN <<before, <<>>>>
  ELSE IF Head(s) = 61 THEN <<before, Tail(s)>>
  ELSE CutFrom(Tail(s), Append(before, Head(s)))

\* url.Values.Add(key, value)
ValuesAdd(v, key, value) ==
  [x \in DOMAIN v \cup {key} |->
     IF x = key THEN (IF key \in DOMAIN v THEN v[key] ELSE <<>>) \o <<value>>
     ELSE v[x]]

\* The loop of url.parseQuery over the '&'-separated fields: an empty field,
\* a field holding ';' and a field with a bad escape add nothing.
RECURSIVE ParseFields(_, _)
ParseFields(fields, v) ==
  IF fields = <<>> THEN v
  ELSE LET field == Head(fields)
           kv == CutFrom(field, <<>>)
           skip == \/ field = <<>>
                   \/ \E i \in DOMAIN field : field[i] = 59
                   \/ ~ValidEscapes(kv[1])
                   \/ ~ValidEscapes(kv[2])
       IN  ParseFields(Tail(fields),
             IF skip THEN v ELSE ValuesAdd(v, QueryUnescape(kv[1]), QueryUnescape(kv[2])))

\* URL.Query(): the parsed RawQuery, a map from name to the list of its
\* values in their order of appearance.
Query(url) == ParseFields(Split(url.RawQuery, 38), <<>>)

\* The keys of a map in ascending order (Values.Encode collects and sorts them).
RECURSIVE SortedKeys(_)
SortedKeys(keys) ==
  IF keys = {} THEN <<>>
  ELSE LET least == CHOOSE k \in keys : \A j \in keys : ~StringLess(j, k)
       IN  <<least>> \o SortedKeys(keys \ {least})

\* The inner loop of Values.Encode: "key=value" for every value of one key,
\* in the order the values are stored.
RECURSIVE EncodePairs(_, _)
EncodePairs(key, values) ==
  IF values = <<>> THEN <<>>
  ELSE <<QueryEscape(key) \o <<61>> \o QueryEscape(Head(values))>>
       \o EncodePairs(key, Tail(values))

RECURSIVE EncodeKeys(_, _)
EncodeKeys(keys, v) ==
  IF keys = <<>> THEN <<>>
  ELSE EncodePairs(Head(keys), v[Head(keys)]) \o EncodeKeys(Tail(keys), v)

\* url.Values.Encode(): the pairs joined by '&', keys ascending.
Encode(v) == Join(EncodeKeys(SortedKeys(DOMAIN v), v), <<38>>)

\* An EscapedPath that turns the empty path into "/".
EscapedPathOrRoot(url) == IF url.Path = <<>> THEN <<47>> ELSE EscapePath(url.Path)

\* URL.EscapedPath() of a URL whose RawPath is unset.
EscapedPath(url) == EscapePath(url.Path)

(***************************************************************************)
(* The signing pipeline.                                                   *)
(***************************************************************************)
\* hashedBody(payload)
hashedBody(body) == HexEncode(Sum256(body))

\* canonicalString(request, payload); `headers` is what its call
\* canonicalHeaders(request.Header, request.Host) returned.
canonicalString(req, body, headers) ==
  req.Method \o <<10>>
  \o EscapedPath(req.URL) \o <<10>>
  \o Encode(Query(req.URL)) \o <<10>>
  \o headers \o <<10>>
  \o hashedBody(body)

\* credentialScope(timestamp, region, service)
credentialScope(timestamp, region, service) ==
  Format(timestamp, dateFormat) \o <<47>> \o region \o <<47>> \o service
  \o <<47>> \o terminationString

\* stringToSign(timestamp, region, service, hashedCanonicalRequest)
stringToSign(timestamp, region, service, hashedCanonicalRequest) ==
  algorithm \o <<10>>
  \o Format(timestamp, dateTimeFormat) \o <<10>>
  \o credentialScope(timestamp, region, service) \o <<10>>
  \o hashedCanonicalRequest

\* A key derivation with the region and service stages exchanged.
deriveSigningKeyExchanged(awsKey, date, region, service) ==
  LET kSecret == <<65, 87, 83, 52>> \o awsKey
      kDate == HMAC(kSecret, Format(date, dateFormat))
      kService == HMAC(kDate, service)
      kRegion == HMAC(kService, region)
  IN  HMAC(kRegion, terminationString)

\* deriveSigningKey(awsKey, date, region, service)
deriveSigningKey(awsKey, date, region, service) ==
  LET kSecret == <<65, 87, 83, 52>> \o awsKey
      kDate == HMAC(kSecret, Format(date, dateFormat))
      kRegion == HMAC(kDate, region)
      kService == HMAC(kRegion, service)
  IN  HMAC(kService, terminationString)

\* calculateSignature(signingKey, stringToSign)
calculateSignature(signingKey, toSign) == HexEncode(HMAC(signingKey, toSign))

\* The locals of Signature(request, payload, timestamp, region, service, key).
SignatureLocals(req, body, timestamp, region, service, key, headers) ==
  LET string == canonicalString(req, body, headers)
      hashed == HexEncode(Sum256(string))
      toSign == stringToSign(timestamp, region, service, hashed)
      signingKey == deriveSigningKey(key, timestamp, region, service)
  IN  [string |-> string, hashed |-> hashed, stringToSign |-> toSign,
       signingKey |-> signingKey,
       signature |-> calculateSignature(signingKey, toSign)]

\* Signature(request, payload, timestamp, region, service, key)
Signature(req, body, timestamp, region, service, key, headers) ==
  SignatureLocals(req, body, timestamp, region, service, key, headers).signature

\* The value Sign adds under dateHeader.
DateHeaderValue(timestamp) == Format(timestamp, RFC3339)

\* An Authorization value with the credential and the header list exchanged.
AuthorizationValueExchanged(credential, signed, signature) ==
  algorithm \o <<44, 32, 67, 114, 101, 100, 101, 110, 116, 105, 97, 108, 61>> \o signed
  \o <<44, 32, 83, 105, 103, 110, 101, 100, 72, 101, 97, 100, 101, 114, 115, 61>> \o credential
  \o <<44, 32, 83, 105, 103, 110, 97, 116, 117, 114, 101, 61>> \o signature

\* The value Sign adds under "Authorization":
\* "%s, Credential=%s, SignedHeaders=%s, Signature=%s".
AuthorizationValue(credential, signed, signature) ==
  algorithm \o <<44, 32, 67, 114, 101, 100, 101, 110, 116, 105, 97, 108, 61>> \o credential
  \o <<44, 32, 83, 105, 103, 110, 101, 100, 72, 101, 97, 100, 101, 114, 115, 61>> \o signed
  \o <<44, 32, 83, 105, 103, 110, 97, 116, 117, 114, 101, 61>> \o signature

\* The locals of signer.Sign(request, payload) at the instant `timestamp`:
\* `signed` is what Sign's own signedHeaders call returned, `headers` what the
\* canonicalHeaders call under Signature returned.
SignLocals(sgn, req, body, timestamp, signed, headers) ==
  LET dated == [req EXCEPT !.Header = HeaderAdd(req.Header, dateHeader, DateHeaderValue(timestamp))]
      credential == sgn.AccessKeyID \o <<47>>
                    \o credentialScope(timestamp, sgn.Region, sgn.Service)
      sl == SignatureLocals(dated, body, timestamp, sgn.Region, sgn.Service,
                            sgn.AccessKeySecret, headers)
  IN  [timestamp |-> timestamp, dated |-> dated.Header, signedHeaders |-> signed,
       credential |-> credential, string |-> sl.string, hashed |-> sl.hashed,
       stringToSign |-> sl.stringToSign, signingKey |-> sl.signingKey,
       signature |-> sl.signature]

\* The request's headers when signer.Sign returns.
SignedRequestHeader(l) ==
  HeaderAdd(l.dated, authorizationHeader,
            AuthorizationValue(l.credential, l.signedHeaders, l.signature))

(***************************************************************************)
(* The inputs: what a caller may pass.                                     *)
(***************************************************************************)
\* 2015-08-30T12:36:00Z (the instant of the tests) and 2026-01-02T03:04:05Z
Instants ==
  { [year |-> 2015, month |-> 8, day |-> 30, hour |-> 12, minute |-> 36, second |-> 0],
    [year |-> 2026, month |-> 1, day |-> 2, hour |-> 3, minute |-> 4, second |-> 5] }

\* The sequences of 1..n elements of S.
SeqsUpTo(S, n) == UNION {[1..k -> S] : k \in 1..n}

\* The maps with keys among `keys`, each key holding one of `values`.
Maps(keys, values) == UNION {[d -> values] : d \in SUBSET keys}

\* "1" and " 2" (a value with a leading space)
HeaderValues == {<<49>>, <<32, 50>>}

\* "B", "b" and "Host": two keys that differ in case only, and a host header
HeaderKeys == {<<66>>, <<98>>, <<72, 111, 115, 116>>}

\* "GET"
Methods == {<<71, 69, 84>>}

\* "", "/" and "/a b"
Paths == {<<>>, <<47>>, <<47, 97, 32, 98>>}

\* "h.io"
Hosts == {<<104, 46, 105, 111>>}

\* "" and "p"
Payloads == {<<>>, <<112>>}

\* Query parameters: the names "a", "b" and the values "1", "2", "x y", "/".
QueryNames == {<<97>>, <<98>>}
QueryValues == {<<49>>, <<50>>, <<120, 32, 121>>, <<47>>}

\* A raw query string as a caller writes it: "name=value" fields, escaped,
\* joined by '&' in the order the caller chose.
RawQueryOf(pairs) ==
  Join([i \in DOMAIN pairs |-> QueryEscape(pairs[i][1]) \o <<61>> \o QueryEscape(pairs[i][2])],
       <<38>>)

RawQueries ==
  {<<>>} \cup {RawQueryOf(ps) : ps \in SeqsUpTo(QueryNames \X QueryValues, MaxVals)}

\* "", "us" and "iam" for region and service; "", "key" and "kez" for the secret
ScopeNames == {<<>>, <<117, 115>>, <<105, 97, 109>>}
Secrets == {<<>>, <<107, 101, 121>>, <<107, 101, 122>>}

\* "AKID"
TheSigner ==
  [Region |-> <<117, 115>>, Service |-> <<105, 97, 109>>, AccessKeyID |-> <<65, 75, 73, 68>>, AccessKeySecret |-> <<107, 101, 121>>]

\* The strings-to-sign handed to calculateSignature on its own: "s" and "".
ToSigns == {<<>>, <<115>>}

NoTime == [year |-> 0, month |-> 0, day |-> 0, hour |-> 0, minute |-> 0, second |-> 0]

\* The locals of a call that has not run.
NoLocals ==
  [timestamp |-> NoTime, dated |-> <<>>, signedHeaders |-> <<>>, credential |-> <<>>,
   string |-> <<>>, hashed |-> <<>>, stringToSign |-> <<>>, signingKey |-> <<>>,
   signature |-> <<>>]

(***************************************************************************)
(* The state: the caller's request, payload and Signer; the last call made *)
(* (op), what it returned (ret) and its locals (loc); the Sign calls made  *)
(* on the request so far (nsigns).                                         *)
(***************************************************************************)
Fresh ==
  /\ op = "new"
  /\ ret = <<>>
  /\ loc = NoLocals
  /\ nsigns = 0

\* The header maps of the requests to sign: "1" under "B", " 2" under "b",
\* both or neither.
SignHeaders ==
  {[k \in d |-> IF k = <<66>> THEN <<<<49>>>> ELSE <<<<32, 50>>>>] : d \in SUBSET {<<66>>, <<98>>}}

\* A request to sign: the path "" or "/", the query "a=2&a=1".
Init ==
  /\ request \in [Method : Methods,
                  URL : [Path : {<<>>, <<47>>}, RawQuery : {<<97, 61, 50, 38, 97, 61, 49>>}],
                  Header : SignHeaders,
                  Host : Hosts]
  /\ payload \in Payloads
  /\ signer = TheSigner
  /\ Fresh

\* Any header map, for the header canonicalizer alone.
InitHeaders ==
  /\ request \in [Method : Methods,
                  URL : [Path : {<<47>>}, RawQuery : {<<>>}],
                  Header : Maps(HeaderKeys, SeqsUpTo(HeaderValues, MaxVals)),
                  Host : Hosts]
  /\ payload = <<>>
  /\ signer = TheSigner
  /\ Fresh

\* Any query string, for the canonical request builder alone.
InitQuery ==
  /\ request \in [Method : Methods,
                  URL : [Path : {<<47>>}, RawQuery : RawQueries],
                  Header : {<<>>},
                  Host : Hosts]
  /\ payload = <<>>
  /\ signer = TheSigner
  /\ Fresh

\* Any secret, region and service, for the key derivation alone.
InitKey ==
  /\ request \in [Method : Methods,
                  URL : [Path : {<<47>>}, RawQuery : {<<>>}],
                  Header : {<<>>},
                  Host : Hosts]
  /\ payload = <<>>
  /\ signer \in [Region : ScopeNames, Service : ScopeNames,
                 AccessKeyID : {<<65, 75, 73, 68>>}, AccessKeySecret : Secrets]
  /\ Fresh

(***************************************************************************)
(* The calls.                                                              *)
(***************************************************************************)
\* signer.Sign(request, payload) at the instant time.Now().UTC() = timestamp.
Sign(timestamp, signed, headers) ==
  /\ nsigns < MaxSigns
  /\ LET l == SignLocals(signer, request, payload, timestamp, signed, headers)
     IN  /\ request' = [request EXCEPT !.Header = SignedRequestHeader(l)]
         /\ loc' = l
  /\ op' = "Sign"
  /\ ret' = <<>>
  /\ nsigns' = nsigns + 1
  /\ UNCHANGED <<payload, signer>>

SignCall ==
  \E timestamp \in Instants :
    LET dated == HeaderAdd(request.Header, dateHeader, DateHeaderValue(timestamp))
    IN  \E signed \in SignedHeadersResults(dated) :
          \E headers \in CanonicalHeadersResults(dated, request.Host) :
            Sign(timestamp, signed, headers)

\* Signature(request, payload, timestamp, region, service, key), called directly.
SignatureCall ==
  \E timestamp \in Instants :
    \E headers \in CanonicalHeadersResults(request.Header, request.Host) :
      LET sl == SignatureLocals(request, payload, timestamp, signer.Region,
                                signer.Service, signer.AccessKeySecret, headers)
      IN  /\ op' = "Signature"
          /\ ret' = sl.signature
          /\ loc' = [NoLocals EXCEPT !.timestamp = timestamp, !.string = sl.string,
                       !.hashed = sl.hashed, !.stringToSign = sl.stringToSign,
                       !.signingKey = sl.signingKey, !.signature = sl.signature]
          /\ UNCHANGED <<request, payload, signer, nsigns>>

\* canonicalString(request, payload)
CanonicalStringCall ==
  \E headers \in CanonicalHeadersResults(request.Header, request.Host) :
    /\ op' = "canonicalString"
    /\ ret' = canonicalString(request, payload, headers)
    /\ loc' = NoLocals
    /\ UNCHANGED <<request, payload, signer, nsigns>>

\* canonicalHeaders(request.Header, request.Host)
CanonicalHeadersCall ==
  \E headers \in CanonicalHeadersResults(request.Header, request.Host) :
    /\ op' = "canonicalHeaders"
    /\ ret' = headers
    /\ loc' = NoLocals
    /\ UNCHANGED <<request, payload, signer, nsigns>>

\* signedHeaders(request.Header)
SignedHeadersCall ==
  \E signed \in SignedHeadersResults(request.Header) :
    /\ op' = "signedHeaders"
    /\ ret' = signed
    /\ loc' = NoLocals
    /\ UNCHANGED <<request, payload, signer, nsigns>>

\* deriveSigningKey(signer.AccessKeySecret, timestamp, signer.Region, signer.Service)
DeriveSigningKeyCall ==
  \E timestamp \in Instants :
    /\ op' = "deriveSigningKey"
    /\ ret' = deriveSigningKey(signer.AccessKeySecret, timestamp, signer.Region, signer.Service)
    /\ loc' = [NoLocals EXCEPT !.timestamp = timestamp]
    /\ UNCHANGED <<request, payload, signer, nsigns>>

\* calculateSignature(signingKey, stringToSign) with the key just derived.
CalculateSignatureCall ==
  /\ op = "deriveSigningKey"
  /\ \E toSign \in ToSigns :
       /\ op' = "calculateSignature"
       /\ ret' = calculateSignature(ret, toSign)
       /\ loc' = [loc EXCEPT !.signingKey = ret, !.stringToSign = toSign]
  /\ UNCHANGED <<request, payload, signer, nsigns>>

Next ==
  \/ SignCall
  \/ SignatureCall
  \/ CanonicalStringCall
  \/ CanonicalHeadersCall
  \/ SignedHeadersCall

NextHeaders ==
  \/ CanonicalHeadersCall
  \/ SignedHeadersCall

NextQuery == CanonicalStringCall

NextKey ==
  \/ DeriveSigningKeyCall
  \/ CalculateSignatureCall

\* Signing requests.
Spec == Init /\ [][Next]_vars

\* The header canonicalizer over every header map.
SpecHeaders == InitHeaders /\ [][NextHeaders]_vars

\* The canonical request over every query string.
SpecQuery == InitQuery /\ [][NextQuery]_vars

\* The key derivation over every secret and scope.
SpecKey == InitKey /\ [][NextKey]_vars

(***************************************************************************)
(* The claims.                                                             *)
(***************************************************************************)
Last(s) == s[Len(s)]

\* The fields of s between the bytes `sep` that stand in s itself (a byte
\* inside a digest is no byte of s).
Fields(s, sep) ==
  LET at == {i \in DOMAIN s : s[i] = sep}
      n == Cardinality(at)
      nth(k) == IF k = 0 THEN 0
                ELSE IF k = n + 1 THEN Len(s) + 1
                ELSE CHOOSE p \in at : Cardinality({q \in at : q < p}) = k - 1
  IN  [k \in 1..(n + 1) |-> SubSeq(s, nth(k - 1) + 1, nth(k) - 1)]

\* YYYYMMDD and YYYYMMDDTHHMMSSZ of an instant, written out.
DateOf(t) == Digits(t.year, 4) \o Digits(t.month, 2) \o Digits(t.day, 2)
CompactOf(t) ==
  DateOf(t) \o <<84>> \o Digits(t.hour, 2) \o Digits(t.minute, 2) \o Digits(t.second, 2)
  \o <<90>>

\* C1: when Sign returns, the value it added under X-Amz-Date is the second
\* line of the string-to-sign it signed, the compact rendering of the instant.
C1_DateHeaderIsSignedTimestamp ==
  op = "Sign" =>
    /\ Last(request.Header[dateHeader]) = Fields(loc.stringToSign, 10)[2]
    /\ Last(request.Header[dateHeader]) = CompactOf(loc.timestamp)

\* C2: the signed-header list holds every name, and host in particular, once,
\* and the canonical headers block has one "host:" line, its value the
\* transport host.
C2_SignedHeadersDeduplicated ==
  /\ op = "signedHeaders" =>
       LET names == Split(ret, 59)
       IN  /\ \A i, j \in DOMAIN names : names[i] = names[j] => i = j
           /\ \E i \in DOMAIN names : names[i] = hostHeader
  /\ op = "canonicalHeaders" =>
       LET lines == Fields(ret, 10)
           names == Split(Last(lines), 59)
           hostLines == {i \in DOMAIN lines : HasPrefix(lines[i], hostHeader \o <<58>>)}
       IN  /\ \A i, j \in DOMAIN names : names[i] = names[j] => i = j
           /\ Cardinality(hostLines) = 1
           /\ \A i \in hostLines : lines[i] = hostHeader \o <<58>> \o request.Host

\* C3: canonicalHeaders returns the same block whatever the orders in which
\* the two range loops visit the header map.
C3_HeaderOrderInvariance ==
  op = "canonicalHeaders" =>
    CanonicalHeadersResults(request.Header, request.Host) = {ret}

\* The entry that stands for the synthesized host header.
C6_Synthesized == <<0>>

C6_Name(k) == IF k = C6_Synthesized THEN hostHeader ELSE ToLower(k)

C6_Value(k) ==
  IF C6_Name(k) = hostHeader THEN request.Host ELSE Join(request.Header[k], <<32>>)

\* The block the claim describes for the entries taken in the order e.
C6_Block(e) ==
  Join([i \in DOMAIN e |-> C6_Name(e[i]) \o <<58>> \o C6_Value(e[i]) \o <<10>>], <<>>)
  \o <<10>> \o Join([i \in DOMAIN e |-> C6_Name(e[i])], <<59>>)

\* C6: the canonical headers block is one line "name:value\n" per header (and
\* the host), names lower-cased and ascending, each value that header's values
\* joined by one space (the host string for host), then "\n", then the names
\* joined by ';'.
C6_CanonicalHeadersBlock ==
  op = "canonicalHeaders" =>
    LET entries == DOMAIN request.Header \cup {C6_Synthesized}
        n == Cardinality(entries)
    IN  \E e \in [1..n -> entries] :
          /\ \A i, j \in 1..n : e[i] = e[j] => i = j
          /\ \A i, j \in 1..n : i < j => ~StringLess(C6_Name(e[j]), C6_Name(e[i]))
          /\ ret = C6_Block(e)

\* The name and value of a "name=value" field of a query string, unescaped.
C9_Pair(field) ==
  LET kv == CutFrom(field, <<>>) IN <<QueryUnescape(kv[1]), QueryUnescape(kv[2])>>

\* C9: the query segment of the canonical request lists the pairs in ascending
\* order of name and, under one name, in ascending order of value; it holds as
\* many pairs as the query, and is empty for an empty query.
C9_QuerySortedByNameThenValue ==
  op = "canonicalString" =>
    LET segment == Fields(ret, 10)[3]
        given == IF request.URL.RawQuery = <<>> THEN <<>> ELSE Split(request.URL.RawQuery, 38)
        fields == IF segment = <<>> THEN <<>> ELSE Split(segment, 38)
    IN  /\ Len(fields) = Len(given)
        /\ \A i \in DOMAIN fields : \E j \in DOMAIN given : C9_Pair(fields[i]) = C9_Pair(given[j])
        /\ \A i \in 1..(Len(fields) - 1) :
             LET p == C9_Pair(fields[i])
                 q == C9_Pair(fields[i + 1])
             IN  \/ StringLess(p[1], q[1])
                 \/ p[1] = q[1] /\ ~StringLess(q[2], p[2])

\* C5: deriveSigningKey is HMAC(HMAC(HMAC(HMAC("AWS4"+secret, YYYYMMDD),
\* region), service), "aws4_request"), and calculateSignature the hexadecimal
\* form of one more HMAC, keyed by that key, of the string-to-sign.
C5_KeyChain ==
  LET key == HMAC(HMAC(HMAC(HMAC(<<65, 87, 83, 52>> \o signer.AccessKeySecret,
                                 DateOf(loc.timestamp)),
                            signer.Region),
                       signer.Service),
                  terminationString)
  IN  /\ op = "deriveSigningKey" => ret = key
      /\ op = "calculateSignature" => ret = HexEncode(HMAC(key, loc.stringToSign))

\* An empty region, and a signature calculated with the derived key.
C5_Witness ==
  /\ op = "calculateSignature"
  /\ signer.Region = <<>>
  /\ signer.Service # <<>>

\* C4: the Authorization value Sign adds is "AWS4-HMAC-SHA256, Credential=" the
\* access key id "/" the scope line of the string-to-sign that was signed
\* (date, region and service those of the key derivation), ", SignedHeaders="
\* the list that ends the canonical headers block hashed into that
\* string-to-sign, ", Signature=" what Signature returns for the request as it
\* was signed.
C4_AuthorizationValue ==
  op = "Sign" =>
    LET toSign == Fields(loc.stringToSign, 10)
        canonical == Fields(loc.string, 10)
        scope == toSign[3]
        list == canonical[Len(canonical) - 1]
        signed == [request EXCEPT !.Header = loc.dated]
    IN  /\ Last(request.Header[authorizationHeader]) =
             algorithm \o <<44, 32, 67, 114, 101, 100, 101, 110, 116, 105, 97, 108, 61>>
             \o signer.AccessKeyID \o <<47>> \o scope
             \o <<44, 32, 83, 105, 103, 110, 101, 100, 72, 101, 97, 100, 101, 114, 115, 61>>
             \o list
             \o <<44, 32, 83, 105, 103, 110, 97, 116, 117, 114, 101, 61>>
             \o loc.signature
        /\ scope = DateOf(loc.timestamp) \o <<47>> \o signer.Region \o <<47>>
                   \o signer.Service \o <<47>> \o terminationString
        /\ loc.signingKey = deriveSigningKey(signer.AccessKeySecret, loc.timestamp,
                                             signer.Region, signer.Service)
        /\ toSign[4] = HexEncode(Sum256(loc.string))
        /\ loc.signature \in
             {Signature(signed, payload, loc.timestamp, signer.Region, signer.Service,
                        signer.AccessKeySecret, headers) :
                headers \in CanonicalHeadersResults(loc.dated, request.Host)}

\* A second Sign of one request: Authorization is among the signed headers.
C4_Witness ==
  /\ op = "Sign"
  /\ nsigns = 2
  /\ Len(request.Header[authorizationHeader]) = 2

\* C7 as stated: for a request whose escaped path is empty, Signature returns
\* no signature and Sign attaches no Authorization header.
C7_EmptyPathFails ==
  (op \in {"Sign", "Signature"} /\ EscapedPath(request.URL) = <<>>) =>
    /\ ret = <<>>
    /\ loc.signature = <<>>
    /\ authorizationHeader \notin DOMAIN request.Header

\* C7 as amended: Sign and Signature have no failure result; a request whose
\* URL path is empty is signed like any other: the path segment of the
\* canonical request is empty, Signature returns the signature, and Sign
\* attaches an Authorization header that carries it.
C7_EmptyPathIsSigned ==
  (op \in {"Sign", "Signature"} /\ request.URL.Path = <<>>) =>
    /\ Fields(loc.string, 10)[2] = <<>>
    /\ loc.signature = calculateSignature(loc.signingKey, loc.stringToSign)
    /\ Fields(loc.stringToSign, 10)[4] = HexEncode(Sum256(loc.string))
    /\ op = "Signature" => ret = loc.signature
    /\ op = "Sign" =>
         /\ authorizationHeader \in DOMAIN request.Header
         /\ Len(request.Header[authorizationHeader]) = nsigns
         /\ Last(Fields(Last(request.Header[authorizationHeader]), 61)) = loc.signature

\* A request with the empty path, signed.
C7_Witness ==
  /\ op = "Sign"
  /\ request.URL.Path = <<>>
  /\ authorizationHeader \in DOMAIN request.Header

\* What a step leaves of the request and the Signer: a Sign appends one value
\* under X-Amz-Date and one under Authorization, every other call nothing.
C8_Frame ==
  IF nsigns' # nsigns
  THEN /\ signer' = signer
       /\ request'.Method = request.Method
       /\ request'.URL = request.URL
       /\ request'.Host = request.Host
       /\ DOMAIN request'.Header = DOMAIN request.Header \cup {dateHeader, authorizationHeader}
       /\ \A k \in DOMAIN request'.Header :
            LET old == IF k \in DOMAIN request.Header THEN request.Header[k] ELSE <<>>
                new == request'.Header[k]
            IN  IF k \in {dateHeader, authorizationHeader}
                THEN Len(new) = Len(old) + 1 /\ SubSeq(new, 1, Len(old)) = old
                ELSE new = old
  ELSE request' = request /\ signer' = signer

\* C8: Sign changes the request only by appending one value to X-Amz-Date and
\* one to Authorization, and leaves the Signer alone; Signature,
\* canonicalString, canonicalHeaders and signedHeaders change nothing.
C8_SignOnlyAppendsTwoHeaders == [][C8_Frame]_vars

\* A second Sign: values were already held under both headers.
C8_Witness ==
  /\ op = "Sign"
  /\ nsigns = 2
  /\ Len(request.Header[dateHeader]) = 2

\* The values hashed for the header `name`, read off the canonical request.
C10_HashedValues(name) ==
  LET lines == Fields(loc.string, 10)
  IN  {Drop(lines[i], Len(name) + 1) :
         i \in {j \in 4..(Len(lines) - 3) : HasPrefix(lines[j], name \o <<58>>)}}

\* The values the request holds for the header `name` (in any letter case).
C10_HeldValues(name) ==
  {Join(request.Header[k], <<32>>) : k \in {x \in DOMAIN request.Header : ToLower(x) = name}}

\* The names of the SignedHeaders list of the last Sign, host aside (its value
\* is the transport host, not a header of the request).
C10_SignedNames ==
  LET names == Split(loc.signedHeaders, 59)
  IN  {names[i] : i \in DOMAIN names} \ {hostHeader}

\* C10: when a Sign call returns, also a second one on the same request, the
\* value that was hashed into its canonical request for each header of its
\* SignedHeaders list is still a value the request holds for that header.
C10_SignedHeadersUnaltered ==
  op = "Sign" =>
    \A name \in C10_SignedNames :
      \A v \in C10_HashedValues(name) : v \in C10_HeldValues(name)

====
